---- MODULE Spec2Model ----
(***************************************************************************)
(* A model of the genetic string engine (src/src/lib/GeneticAlgorithm.ts)  *)
(* and of the controller that drives it (src/unnamed/part_000).            *)
(*                                                                         *)
(* Symbols are small naturals standing for characters; a dna string is a   *)
(* sequence of symbols.  Every call of Math.random() is a nondeterministic *)
(* choice among the values the expression it feeds can take.               *)
(***************************************************************************)
EXTENDS Integers, Sequences, FiniteSets, TLC

VARIABLES
  config,                      \* this.config
  characterPool,               \* this.characterPool
  population,                  \* this.population : sequence of Individual
  generation,                  \* this.generation
  bestFitnessHistory,          \* this.bestFitnessHistory
  generationsSinceImprovement, \* this.generationsSinceImprovement
  lastCall,                    \* the last public call and how it ended
  found,                       \* the generation counter that call found
  returned,                    \* <<stats>> returned by the last call, <<>> if none
  stepTrace,                   \* the survivor count and split points of the last step()
  stepBirths,                  \* the survivors, parents and children of an observed step()
  ga,                          \* UIController.ga: "null" or "engine", the object above
  isRunning,                   \* UIController.isRunning
  intervalId,                  \* UIController.intervalId: 0 for null, or a timer's id
  timers,                      \* the ids of the pending timeouts of runStep
  status,                      \* the text and class of the status display
  buttons,                     \* the buttons that are not disabled
  handler,                     \* the last handler or timer callback that ran
  form                         \* what getConfig() gave the last handleInitialize

ui == <<ga, isRunning, intervalId, timers, status, buttons, handler, form>>

vars == <<config, characterPool, population, generation, bestFitnessHistory,
          generationsSinceImprovement, lastCall, found, returned, stepTrace,
          stepBirths,
          ga, isRunning, intervalId, timers, status, buttons, handler, form>>

engine == <<config, characterPool, population, generation, bestFitnessHistory,
            generationsSinceImprovement>>

calls == <<lastCall, found, returned, stepTrace, stepBirths>>

----------------------------------------------------------------------------
(* Bounds of the model.                                                    *)

\* step() is not taken once the generation counter has reached MaxGen.
MaxGen == 2

\* No statistics are computed once the history holds MaxHist entries.
MaxHist == 3

\* The long runs let the history grow to StagnationSlack entries more than
\* stagnationThreshold; in them getStats() is called by the caller only on
\* a history shorter than FirstQueries, as after initialize().
StagnationSlack == 2
FirstQueries == 1

----------------------------------------------------------------------------
(* Program constants.                                                      *)

stagnationThreshold == 50

\* config.mutationRate ?? 0.01, kept in percent (0.01 is 1 percent).
DefaultMutationRate == 1

\* The character pools.  Each pool of the source extends the one before it
\* (letters, then digits, then the other printable characters); the model
\* keeps that nesting with one representative symbol per extension.
LettersSpace == <<1, 2>>
AlphanumericSpace == LettersSpace \o <<3>>
PrintableAscii == AlphanumericSpace \o <<4>>

CharacterSet == {"letters-space", "alphanumeric-space", "printable-ascii"}
SelectionStrategy == {"elitism", "semi-elitism", "random"}

----------------------------------------------------------------------------
(* Helpers.                                                                *)

Range(s) == {s[i] : i \in 1..Len(s)}

Max(a, b) == IF a >= b THEN a ELSE b
Min(a, b) == IF a <= b THEN a ELSE b

\* Math.ceil(n * (rate / 100)) for n >= 0, rate >= 0.  The double product
\* equals the exact one for every n below 25 (the first difference is
\* n = 25, rate = 28).
CeilPercent(n, rate) == (n * rate + 99) \div 100

\* Array.prototype.slice(0, end) for end >= 0.
SliceTo(s, end) == SubSeq(s, 1, Min(end, Len(s)))

\* String.prototype.slice(start) for start >= 0.
SliceFrom(s, start) == SubSeq(s, Min(start, Len(s)) + 1, Len(s))

\* The values of Math.floor(Math.random() * m), Math.random() in [0, 1).
RandomFloor(m) ==
  IF m > 0 THEN 0..(m - 1)
  ELSE IF m = 0 THEN {0}
  ELSE m..0

Individual(dna, fitness) == [dna |-> dna, fitness |-> fitness]

setCharacterPool(characterSet) ==
  CASE characterSet = "letters-space" -> LettersSpace
    [] characterSet = "alphanumeric-space" -> AlphanumericSpace
    [] characterSet = "printable-ascii" -> PrintableAscii

\* generateRandomString with its loop one round short.
generateRandomStringShort(pool, length) == [1..(length - 1) -> Range(pool)]

\* generateRandomString drawing from every printable character, whatever
\* the pool.
generateRandomStringAnyChar(pool, length) == [1..length -> Range(PrintableAscii)]

\* The strings generateRandomString(length) can return.
generateRandomString(pool, length) == [1..length -> Range(pool)]

\* calculateFitness counting the symbols found anywhere in the target.
calculateFitnessAnywhere(dna, target) ==
  Cardinality({i \in 1..Len(dna) : dna[i] \in Range(target)})

\* target[i] is undefined beyond the target's end and equals no symbol.
calculateFitness(dna, target) ==
  Cardinality({i \in 1..Len(dna) : i <= Len(target) /\ dna[i] = target[i]})

MaxFitness(pop) ==
  IF pop = <<>> THEN 0
  ELSE CHOOSE f \in {pop[i].fitness : i \in 1..Len(pop)} :
         \A i \in 1..Len(pop) : pop[i].fitness <= f

RECURSIVE SortFrom(_, _)
SortFrom(pop, f) ==
  IF f < 0 THEN <<>>
  ELSE SelectSeq(pop, LAMBDA ind : ind.fitness = f) \o SortFrom(pop, f - 1)

RECURSIVE SortUpFrom(_, _, _)
SortUpFrom(pop, f, top) ==
  IF f > top THEN <<>>
  ELSE SelectSeq(pop, LAMBDA ind : ind.fitness = f) \o SortUpFrom(pop, f + 1, top)

\* The sort with its comparison reversed: (a, b) => a.fitness - b.fitness.
SortByFitnessAscending(pop) == SortUpFrom(pop, 0, MaxFitness(pop))

\* sort((a, b) => b.fitness - a.fitness): descending and stable.
SortByFitness(pop) == SortFrom(pop, MaxFitness(pop))

\* The individuals selectParent(pool) can return; none for an empty pool,
\* where pool[0] is undefined.
selectParent(pool) ==
  {pool[k + 1] : k \in RandomFloor(Len(pool)) \cap (0..(Len(pool) - 1))}

\* this.population is the pool of selectRandomFromPopulation.
selectRandomFromPopulation(pop) ==
  {pop[k + 1] : k \in RandomFloor(Len(pop)) \cap (0..(Len(pop) - 1))}

\* The split point drawn over the whole length: Math.floor(Math.random() * length).
splitPointFromZero(length) == RandomFloor(length)

\* The split points crossover can draw.
splitPoint(length) == {k + 1 : k \in RandomFloor(length - 1)}

\* crossover concatenating in the wrong order: the other parent's tail
\* first, then the head.
crossoverTailFirst(parent1, parent2, split) ==
  [child1 |-> SliceFrom(parent2.dna, split) \o SliceTo(parent1.dna, split),
   child2 |-> SliceFrom(parent1.dna, split) \o SliceTo(parent2.dna, split)]

\* crossover with the tails cut one symbol early: slice(splitPoint - 1).
crossoverOverlapping(parent1, parent2, split) ==
  [child1 |-> SliceTo(parent1.dna, split) \o SliceFrom(parent2.dna, split - 1),
   child2 |-> SliceTo(parent2.dna, split) \o SliceFrom(parent1.dna, split - 1)]

crossover(parent1, parent2, split) ==
  [child1 |-> SliceTo(parent1.dna, split) \o SliceFrom(parent2.dna, split),
   child2 |-> SliceTo(parent2.dna, split) \o SliceFrom(parent1.dna, split)]

\* The symbols position i of mutate's result can hold: Math.random() <
\* mutationRate never holds for a rate of 0 and always for a rate of 1.
MutatedSymbol(cfg, pool, symbol) ==
  IF cfg.mutationRate <= 0 THEN {symbol}
  ELSE IF cfg.mutationRate >= 100 THEN Range(pool)
  ELSE {symbol} \cup Range(pool)

\* mutate without the test of mutationEnabled.
mutateAlways(cfg, pool, dna) ==
  {m \in [1..Len(dna) -> Range(pool) \cup Range(dna)] :
     \A i \in 1..Len(dna) : m[i] \in MutatedSymbol(cfg, pool, dna[i])}

mutate(cfg, pool, dna) ==
  IF ~cfg.mutationEnabled THEN {dna}
  ELSE {m \in [1..Len(dna) -> Range(pool) \cup Range(dna)] :
          \A i \in 1..Len(dna) : m[i] \in MutatedSymbol(cfg, pool, dna[i])}

----------------------------------------------------------------------------
(* Statistics.                                                             *)

\* A quotient num / den, kept exact.
Quotient(num, den) == [num |-> num, den |-> den]

RECURSIVE TotalFitness(_)
TotalFitness(pop) ==
  IF pop = <<>> THEN 0 ELSE pop[1].fitness + TotalFitness(Tail(pop))

\* calculateDiversity counting the strings without the Set.
calculateDiversityOfAll(pop) ==
  IF Len(pop) = 0 THEN Quotient(0, 1) ELSE Quotient(Len(pop) * 100, Len(pop))

\* (uniqueStrings.size / population.length) * 100
calculateDiversity(pop) ==
  IF Len(pop) = 0 THEN Quotient(0, 1)
  ELSE Quotient(Cardinality({pop[i].dna : i \in 1..Len(pop)}) * 100, Len(pop))

\* The improvement check with >= for >: an equal best counts as improved.
trackImprovementOrEqual(history, since, bestFitness) ==
  IF Len(history) = 0 \/ bestFitness >= history[Len(history)]
  THEN 0
  ELSE since + 1

\* The improvement check with !== for >: any change of the best fitness,
\* a loss included, counts as improved.
trackImprovementOnChange(history, since, bestFitness) ==
  IF Len(history) = 0 \/ bestFitness # history[Len(history)]
  THEN 0
  ELSE since + 1

\* The stagnation counter after the improvement check of getStats().
trackImprovement(history, since, bestFitness) ==
  IF Len(history) = 0 \/ bestFitness > history[Len(history)]
  THEN 0
  ELSE since + 1

\* getStats() as a pure query: the statistics of the history and counter it
\* finds, both left as they are.
getStatsReadOnly(cfg, pop, gen, history, since) ==
  LET bestIndividual == SortByFitness(pop)[1]
  IN [stats |-> [generation |-> gen,
                 bestIndividual |-> bestIndividual,
                 averageFitness |-> Quotient(TotalFitness(pop), Len(pop)),
                 diversity |-> calculateDiversity(pop),
                 isComplete |-> bestIndividual.fitness = Len(cfg.target),
                 isStagnant |-> since >= stagnationThreshold,
                 generationsSinceImprovement |-> since],
      bestFitnessHistory |-> history,
      generationsSinceImprovement |-> since]

\* getStats() on a non-empty population: the statistics it returns and the
\* history and stagnation counter it leaves behind.
getStats(cfg, pop, gen, history, since) ==
  LET sortedPopulation == SortByFitness(pop)
      bestIndividual == sortedPopulation[1]
      averageFitness == Quotient(TotalFitness(pop), Len(pop))
      diversity == calculateDiversity(pop)
      isComplete == bestIndividual.fitness = Len(cfg.target)
      newSince == trackImprovement(history, since, bestIndividual.fitness)
  IN [stats |-> [generation |-> gen,
                 bestIndividual |-> bestIndividual,
                 averageFitness |-> averageFitness,
                 diversity |-> diversity,
                 isComplete |-> isComplete,
                 isStagnant |-> newSince >= stagnationThreshold,
                 generationsSinceImprovement |-> newSince],
      bestFitnessHistory |-> Append(history, bestIndividual.fitness),
      generationsSinceImprovement |-> newSince]

----------------------------------------------------------------------------
(* The generational step.                                                  *)

\* survivorCount without the floor of two.
survivorCountNoFloor(cfg, pop) == CeilPercent(Len(pop), cfg.survivalRate)

survivorCount(cfg, pop) == Max(2, CeilPercent(Len(pop), cfg.survivalRate))

\* The switch taking the branch of 'random' for every strategy.
selectParentsRandom(cfg, survivors, pop) ==
  selectRandomFromPopulation(pop) \X selectRandomFromPopulation(pop)

\* The switch on the strategy: the pairs <<parent1, parent2>> it can draw.
\* Empty when a pool is empty and the parent drawn from it undefined.
selectParents(cfg, survivors, pop) ==
  CASE cfg.selectionStrategy = "elitism" ->
         selectParent(survivors) \X selectParent(survivors)
    [] cfg.selectionStrategy = "semi-elitism" ->
         selectParent(survivors) \X selectRandomFromPopulation(pop)
    [] cfg.selectionStrategy = "random" ->
         selectRandomFromPopulation(pop) \X selectRandomFromPopulation(pop)

\* Elitism that keeps the survivors as parents only: the new population
\* starts empty for every strategy.
seedPopulationNone(cfg, survivors) == <<>>

\* Elitism that carries only the best survivor into the new population.
seedPopulationBestOnly(cfg, survivors) ==
  IF cfg.selectionStrategy = "elitism" THEN SliceTo(survivors, 1) ELSE <<>>

\* What the new population starts from.
seedPopulation(cfg, survivors) ==
  IF cfg.selectionStrategy = "elitism" THEN survivors ELSE <<>>

\* The second child is mutated as well when no slot is left for it, and the
\* result discarded: no choice is made for it here.
mutateSecond(cfg, pool, dna, room) ==
  IF room THEN mutate(cfg, pool, dna) ELSE {dna}

\* pushChildren without the length test of the second push.
pushChildrenBoth(cfg, newPopulation, dna1, dna2) ==
  newPopulation \o <<Individual(dna1, calculateFitness(dna1, cfg.target)),
                     Individual(dna2, calculateFitness(dna2, cfg.target))>>

\* One pass of the fill loop: the two pushes, each under its length test.
pushChildren(cfg, newPopulation, dna1, dna2) ==
  LET one == IF Len(newPopulation) < cfg.populationSize
             THEN Append(newPopulation,
                         Individual(dna1, calculateFitness(dna1, cfg.target)))
             ELSE newPopulation
  IN IF Len(one) < cfg.populationSize
     THEN Append(one, Individual(dna2, calculateFitness(dna2, cfg.target)))
     ELSE one

\* What is kept of one pass of the fill loop: the split point, and for an
\* observed step the parents, the children before mutation and the index
\* of the slot the first child is pushed to.
Birth(observed, parent1, parent2, split, c, at) ==
  IF observed
  THEN [parent1 |-> parent1, parent2 |-> parent2, splitPoint |-> split,
        child1DNA |-> c.child1, child2DNA |-> c.child2, at |-> at]
  ELSE [splitPoint |-> split]

\* One pass of the fill loop on a new population that is not yet full:
\* every <<new population, birth>> it can end with.
onePass(cfg, pool, pop, survivors, newPopulation, observed) ==
  UNION {
    UNION {
      LET c == crossover(parents[1], parents[2], split)
          room == Len(newPopulation) + 1 < cfg.populationSize
      IN {<<pushChildren(cfg, newPopulation, m[1], m[2]),
            Birth(observed, parents[1], parents[2], split, c,
                  Len(newPopulation) + 1)>> :
            m \in mutate(cfg, pool, c.child1)
                    \X mutateSecond(cfg, pool, c.child2, room)}
      : split \in splitPoint(Len(parents[1].dna))}
    : parents \in selectParents(cfg, survivors, pop)}

\* The fill loop of step(): every way it can end.  threw marks the TypeError
\* of crossover reading the dna of an undefined parent.
RECURSIVE fill(_, _, _, _, _, _, _)
fill(cfg, pool, pop, survivors, newPopulation, births, observed) ==
  IF Len(newPopulation) >= cfg.populationSize
  THEN {[population |-> newPopulation, births |-> births, threw |-> FALSE]}
  ELSE IF selectParents(cfg, survivors, pop) = {}
  THEN {[population |-> newPopulation, births |-> births, threw |-> TRUE]}
  ELSE UNION {fill(cfg, pool, pop, survivors, p[1], Append(births, p[2]), observed) :
                p \in onePass(cfg, pool, pop, survivors, newPopulation, observed)}

----------------------------------------------------------------------------
(* The engine's operations.                                                *)

NoTrace == [survivorCount |-> 0, seeded |-> 0, splitPoints |-> <<>>]
NoBirths == [survivors |-> <<>>, births |-> <<>>]

Call(op, error) == [op |-> op, error |-> error]

\* new GeneticAlgorithm(c): the state of the fresh object.
Constructed(c) ==
  /\ config = c
  /\ characterPool = setCharacterPool(c.characterSet)
  /\ population = <<>>
  /\ generation = 0
  /\ bestFitnessHistory = <<>>
  /\ generationsSinceImprovement = 0
  /\ lastCall = Call("constructor", "none")
  /\ found = 0
  /\ returned = <<>>
  /\ stepTrace = NoTrace
  /\ stepBirths = NoBirths

\* initialize() without this.population = []: the loop pushes onto the
\* population it finds.
initialPopulationsAppended(cfg, pool) ==
  {population \o [i \in 1..cfg.populationSize |->
                    Individual(dnas[i], calculateFitness(dnas[i], cfg.target))] :
     dnas \in [1..cfg.populationSize ->
                 generateRandomString(pool, Len(cfg.target))]}

\* The populations the loop of initialize() can build.
initialPopulations(cfg, pool) ==
  {[i \in 1..cfg.populationSize |->
      Individual(dnas[i], calculateFitness(dnas[i], cfg.target))] :
     dnas \in [1..cfg.populationSize ->
                 generateRandomString(pool, Len(cfg.target))]}

\* initialize() without this.generation = 0.
initializeKeepsGeneration ==
  /\ population' \in initialPopulations(config, characterPool)
  /\ bestFitnessHistory' = <<>>
  /\ generationsSinceImprovement' = 0
  /\ lastCall' = Call("initialize", "none")
  /\ found' = generation
  /\ returned' = <<>>
  /\ stepTrace' = NoTrace
  /\ stepBirths' = NoBirths
  /\ UNCHANGED <<config, characterPool, generation>>

initialize ==
  /\ population' \in initialPopulations(config, characterPool)
  /\ generation' = 0
  /\ bestFitnessHistory' = <<>>
  /\ generationsSinceImprovement' = 0
  /\ lastCall' = Call("initialize", "none")
  /\ found' = generation
  /\ returned' = <<>>
  /\ stepTrace' = NoTrace
  /\ stepBirths' = NoBirths
  /\ UNCHANGED <<config, characterPool>>

\* step() with fewer than maxGen generations behind it and a history
\* shorter than maxHist.  An observed step leaves its survivors, parents and
\* children in stepBirths.
step(maxGen, maxHist, observed) ==
  /\ generation < maxGen
  /\ Len(bestFitnessHistory) < maxHist
  /\ LET sorted == SortByFitness(population)
         count == survivorCount(config, sorted)
         survivors == SliceTo(sorted, count)
         seed == seedPopulation(config, survivors)
     IN \E o \in fill(config, characterPool, sorted, survivors, seed, <<>>,
                        observed) :
          /\ stepTrace' = [survivorCount |-> count, seeded |-> Len(seed),
                           splitPoints |-> [k \in DOMAIN o.births |->
                                              o.births[k].splitPoint]]
          /\ stepBirths' = IF observed
                           THEN [survivors |-> survivors, births |-> o.births]
                           ELSE NoBirths
          /\ IF o.threw
             THEN \* thrown out of the fill loop: only the sort has happened
                  /\ population' = sorted
                  /\ lastCall' = Call("step", "TypeError")
                  /\ found' = generation
                  /\ returned' = <<>>
                  /\ UNCHANGED <<generation, bestFitnessHistory,
                                 generationsSinceImprovement>>
             ELSE IF o.population = <<>>
             THEN \* getStats() reads the fitness of an undefined best
                  /\ population' = o.population
                  /\ generation' = generation + 1
                  /\ lastCall' = Call("step", "TypeError")
                  /\ found' = generation
                  /\ returned' = <<>>
                  /\ UNCHANGED <<bestFitnessHistory, generationsSinceImprovement>>
             ELSE LET s == getStats(config, o.population, generation + 1,
                                    bestFitnessHistory,
                                    generationsSinceImprovement)
                  IN /\ population' = o.population
                     /\ generation' = generation + 1
                     /\ bestFitnessHistory' = s.bestFitnessHistory
                     /\ generationsSinceImprovement' = s.generationsSinceImprovement
                     /\ lastCall' = Call("step", "none")
                     /\ found' = generation
                     /\ returned' = <<s.stats>>
  /\ UNCHANGED <<config, characterPool>>

\* A public call of getStats() with the history shorter than maxHist.
getStatsCall(maxHist) ==
  /\ Len(bestFitnessHistory) < maxHist
  /\ IF population = <<>>
     THEN /\ lastCall' = Call("getStats", "TypeError")
          /\ returned' = <<>>
          /\ UNCHANGED <<bestFitnessHistory, generationsSinceImprovement>>
     ELSE LET s == getStats(config, population, generation, bestFitnessHistory,
                            generationsSinceImprovement)
          IN /\ bestFitnessHistory' = s.bestFitnessHistory
             /\ generationsSinceImprovement' = s.generationsSinceImprovement
             /\ lastCall' = Call("getStats", "none")
             /\ returned' = <<s.stats>>
  /\ found' = generation
  /\ stepTrace' = NoTrace
  /\ stepBirths' = NoBirths
  /\ UNCHANGED <<config, characterPool, population, generation>>

\* reset() without this.bestFitnessHistory = [].
resetKeepsHistory ==
  /\ population' = <<>>
  /\ generation' = 0
  /\ generationsSinceImprovement' = 0
  /\ lastCall' = Call("reset", "none")
  /\ found' = generation
  /\ returned' = <<>>
  /\ stepTrace' = NoTrace
  /\ stepBirths' = NoBirths
  /\ UNCHANGED <<config, characterPool, bestFitnessHistory>>

reset ==
  /\ population' = <<>>
  /\ generation' = 0
  /\ bestFitnessHistory' = <<>>
  /\ generationsSinceImprovement' = 0
  /\ lastCall' = Call("reset", "none")
  /\ found' = generation
  /\ returned' = <<>>
  /\ stepTrace' = NoTrace
  /\ stepBirths' = NoBirths
  /\ UNCHANGED <<config, characterPool>>

\* updateConfig(partial): partial holds the fields named in present.
updateConfig(partial, present) ==
  /\ config' = [f \in DOMAIN config |->
                  IF f \in present THEN partial[f] ELSE config[f]]
  /\ characterPool' = IF "characterSet" \in present
                      THEN setCharacterPool(partial.characterSet)
                      ELSE characterPool
  /\ lastCall' = Call("updateConfig", "none")
  /\ found' = generation
  /\ returned' = <<>>
  /\ stepTrace' = NoTrace
  /\ stepBirths' = NoBirths
  /\ UNCHANGED <<population, generation, bestFitnessHistory,
                 generationsSinceImprovement>>

----------------------------------------------------------------------------
(* The controller's state.                                                 *)

\* updateStatus(message, type); chars are the symbols the message lists.
Status(message, type) == [message |-> message, type |-> type, chars |-> <<>>]

\* updateButtonStates() leaving Start enabled during a run.
updateButtonStatesStartEnabled(engine_, running) ==
  (IF ~running THEN {"init", "reset"} ELSE {})
    \cup (IF engine_ # "null" /\ ~running THEN {"step"} ELSE {})
    \cup (IF engine_ # "null" THEN {"start"} ELSE {})
    \cup (IF running THEN {"stop"} ELSE {})

\* updateButtonStates(): the buttons it leaves enabled.
updateButtonStates(engine_, running) ==
  (IF ~running THEN {"init", "reset"} ELSE {})
    \cup (IF engine_ # "null" /\ ~running THEN {"step", "start"} ELSE {})
    \cup (IF running THEN {"stop"} ELSE {})

\* The configuration of no engine: nothing read from the form yet.
NoForm ==
  [target |-> <<>>, populationSize |-> 0, survivalRate |-> 0,
   mutationEnabled |-> FALSE, mutationRate |-> 0,
   characterSet |-> "letters-space", selectionStrategy |-> "elitism"]

\* new UIController(): no engine, not running, no timer; the status display
\* holds the page's own text, which the constructor does not set.
UIConstructed ==
  /\ ga = "null"
  /\ isRunning = FALSE
  /\ intervalId = 0
  /\ timers = {}
  /\ status = Status("", "")
  /\ buttons = updateButtonStates("null", FALSE)
  /\ handler = "constructor"
  /\ form = NoForm

----------------------------------------------------------------------------
(* Configurations and specifications.                                      *)

Config(target, size, rate, mutation, mutationRate, characterSet, strategy) ==
  [target |-> target, populationSize |-> size, survivalRate |-> rate,
   mutationEnabled |-> mutation, mutationRate |-> mutationRate,
   characterSet |-> characterSet, selectionStrategy |-> strategy]

\* The configurations the engine is constructed with: targets of length 1
\* and 2, even and odd population sizes, survival rates on both sides of the
\* floor of two survivors.
Targets == {<<1>>, <<1, 2>>}
PopulationSizes == {2, 3}
SurvivalRates == {1, 100}

Configs ==
  {Config(t, n, r, m, DefaultMutationRate, "letters-space", s) :
     t \in Targets, n \in PopulationSizes, r \in SurvivalRates,
     m \in BOOLEAN, s \in SelectionStrategy}

Init == (\E c \in Configs : Constructed(c)) /\ UIConstructed

Next ==
  \/ initialize /\ UNCHANGED ui
  \/ step(MaxGen, MaxHist, FALSE) /\ UNCHANGED ui
  \/ getStatsCall(MaxHist) /\ UNCHANGED ui
  \/ reset /\ UNCHANGED ui

Spec == Init /\ [][Next]_vars

\* The observed runs: every step leaves its births in stepBirths.  They
\* are at most MaxTraceGen steps long, on targets of length 1 to 3 and
\* populations of at most MaxTraceCells symbols, of at most MaxMutatedCells
\* with mutation on.
MaxTraceGen == 1
MaxTraceCells == 6
MaxMutatedCells == 3
TraceTargets == Targets \cup {<<1, 2, 1>>}

TraceConfigs ==
  {c \in {Config(t, n, r, m, DefaultMutationRate, "letters-space", s) :
            t \in TraceTargets, n \in PopulationSizes, r \in SurvivalRates,
            m \in BOOLEAN, s \in SelectionStrategy} :
     /\ Len(c.target) * c.populationSize <= MaxTraceCells
     /\ c.mutationEnabled => Len(c.target) * c.populationSize <= MaxMutatedCells}

InitTrace == (\E c \in TraceConfigs : Constructed(c)) /\ UIConstructed

NextTrace ==
  \/ initialize /\ UNCHANGED ui
  \/ step(MaxTraceGen, MaxHist, TRUE) /\ UNCHANGED ui
  \/ getStatsCall(MaxHist) /\ UNCHANGED ui
  \/ reset /\ UNCHANGED ui

SpecTrace == InitTrace /\ [][NextTrace]_vars

\* The runs whose configuration is updated on the way: a caller's
\* updateConfig with one field, a target or a character set.
UpdateTargets == {<<1, 2>>, <<2, 1>>}
UpdateCharacterSets == {"letters-space", "alphanumeric-space"}

UpdateConfigs ==
  {Config(<<1, 2>>, 2, 100, FALSE, DefaultMutationRate, "letters-space", s) :
     s \in {"elitism", "random"}}

updateConfigCall ==
  \/ \E t \in UpdateTargets :
       updateConfig([config EXCEPT !.target = t], {"target"})
  \/ \E cs \in UpdateCharacterSets :
       updateConfig([config EXCEPT !.characterSet = cs], {"characterSet"})

InitCfg == (\E c \in UpdateConfigs : Constructed(c)) /\ UIConstructed

NextCfg ==
  \/ initialize /\ UNCHANGED ui
  \/ step(MaxGen, MaxHist, FALSE) /\ UNCHANGED ui
  \/ getStatsCall(MaxHist) /\ UNCHANGED ui
  \/ reset /\ UNCHANGED ui
  \/ updateConfigCall /\ UNCHANGED ui

SpecCfg == InitCfg /\ [][NextCfg]_vars

\* The long runs: generations enough for the stagnation counter to pass
\* stagnationThreshold, on a population whose best fitness can still rise
\* (elitism with mutation on a target of length 1).
MaxLongHist == stagnationThreshold + StagnationSlack

LongConfigs ==
  {Config(<<1>>, 3, 1, TRUE, DefaultMutationRate, "letters-space", "elitism")}

InitLong == (\E c \in LongConfigs : Constructed(c)) /\ UIConstructed

NextLong ==
  \/ initialize /\ UNCHANGED ui
  \/ step(MaxLongHist, MaxLongHist, FALSE) /\ UNCHANGED ui
  \/ getStatsCall(FirstQueries) /\ UNCHANGED ui
  \/ reset /\ UNCHANGED ui

SpecLong == InitLong /\ [][NextLong]_vars

\* The runs with repeated queries: the caller may call getStats() again and
\* again on one generation, until the history holds MaxLongHist entries.
QueryConfigs ==
  {Config(<<1>>, 2, 100, FALSE, DefaultMutationRate, "letters-space", s) :
     s \in {"elitism", "random"}}

InitQuery == (\E c \in QueryConfigs : Constructed(c)) /\ UIConstructed

NextQuery ==
  \/ initialize /\ UNCHANGED ui
  \/ step(MaxGen, MaxHist, FALSE) /\ UNCHANGED ui
  \/ getStatsCall(MaxLongHist) /\ UNCHANGED ui
  \/ reset /\ UNCHANGED ui

SpecQuery == InitQuery /\ [][NextQuery]_vars

\* The engines a caller constructs without validating anything first: an
\* empty target or one with a digit under the character set of letters, a
\* population of 0 or 1, survival rates of 0 and 101.
UncheckedTargets == {<<>>, <<3>>, <<1, 3>>}
UncheckedPopulationSizes == {0, 1, 2}
UncheckedSurvivalRates == {0, 100, 101}

UncheckedConfigs ==
  {Config(t, n, r, m, DefaultMutationRate, "letters-space", s) :
     t \in UncheckedTargets, n \in UncheckedPopulationSizes,
     r \in UncheckedSurvivalRates, m \in BOOLEAN, s \in SelectionStrategy}

InitUnchecked == (\E c \in UncheckedConfigs : Constructed(c)) /\ UIConstructed

NextUnchecked ==
  \/ initialize /\ UNCHANGED ui
  \/ step(MaxGen, MaxHist, FALSE) /\ UNCHANGED ui
  \/ getStatsCall(MaxHist) /\ UNCHANGED ui
  \/ reset /\ UNCHANGED ui

SpecUnchecked == InitUnchecked /\ [][NextUnchecked]_vars

----------------------------------------------------------------------------
(* The controller's handlers.                                              *)

\* getConfig(): the configurations the form's inputs can hold.  Some pass
\* the validation of handleInitialize: a target of one letter, or of one
\* digit with the character set that has digits, and a population of two.
FormStrategies == {"elitism", "random"}

ValidForms ==
  {Config(<<1>>, 2, 100, m, DefaultMutationRate, "letters-space", st) :
     m \in BOOLEAN, st \in FormStrategies}
    \cup {Config(<<3>>, 2, 100, FALSE, DefaultMutationRate, "alphanumeric-space", st) :
             st \in FormStrategies}

\* The others have an empty target, a population of one, both, a digit the
\* character set of letters lacks, or symbols that neither set has.
InvalidForms ==
  {Config(<<>>, 2, 100, FALSE, DefaultMutationRate, "letters-space", "elitism"),
   Config(<<1>>, 1, 100, FALSE, DefaultMutationRate, "letters-space", "elitism"),
   Config(<<>>, 1, 100, FALSE, DefaultMutationRate, "letters-space", "elitism"),
   Config(<<3>>, 2, 100, FALSE, DefaultMutationRate, "letters-space", "elitism"),
   Config(<<1, 4, 3, 4>>, 2, 100, FALSE, DefaultMutationRate, "letters-space", "elitism"),
   Config(<<1, 4, 3, 4>>, 2, 100, FALSE, DefaultMutationRate, "alphanumeric-space", "elitism")}

getConfig == ValidForms \cup InvalidForms

\* The validation looking at the target's first symbol only.
invalidCharsFirst(target, pool, i, seen) ==
  IF target[1] \notin Range(pool) THEN <<target[1]>> ELSE <<>>

\* The symbols of target from position i on that are not in pool, each once,
\* after those in seen.
RECURSIVE invalidChars(_, _, _, _)
invalidChars(target, pool, i, seen) ==
  IF i > Len(target) THEN seen
  ELSE invalidChars(target, pool, i + 1,
                    IF target[i] \notin Range(pool) /\ target[i] \notin Range(seen)
                    THEN Append(seen, target[i])
                    ELSE seen)

\* The id window.setTimeout returns: one that no pending timer has.
setTimeout(pending) ==
  CHOOSE id \in 1..(Cardinality(pending) + 1) :
    id \notin pending /\ \A k \in 1..(id - 1) : k \in pending

\* handleInitialize asking for the statistics twice.
statsAfterInitializeTwice(cfg, pop) ==
  LET once == getStats(cfg, pop, 0, <<>>, 0)
  IN getStats(cfg, pop, 0, once.bestFitnessHistory,
              once.generationsSinceImprovement)

\* const stats = this.ga.getStats(), on the engine initialize() has left.
statsAfterInitialize(cfg, pop) == getStats(cfg, pop, 0, <<>>, 0)

handleInitialize ==
  /\ handler' = "handleInitialize"
  /\ \E c \in getConfig :
       LET pool == setCharacterPool(c.characterSet)  \* of tempGA
           chars == invalidChars(c.target, pool, 1, <<>>)
           error == IF c.target = <<>>
                    THEN Status("Please enter a target string", "error")
                    ELSE IF c.populationSize < 2
                    THEN Status("Population size must be at least 2", "error")
                    ELSE IF Len(chars) > 0
                    THEN [Status("Target string contains characters not in selected character set",
                                 "error") EXCEPT !.chars = chars]
                    ELSE Status("", "")
       IN /\ form' = c
          /\ IF error.type = "error"
             THEN /\ status' = error
                  /\ UNCHANGED <<engine, calls, ga, isRunning, intervalId, timers, buttons>>
             ELSE /\ ga' = "engine"
                  /\ config' = c
                  /\ characterPool' = pool
                  /\ \E pop \in initialPopulations(c, pool) :
                       LET s == statsAfterInitialize(c, pop)
                       IN /\ population' = pop
                          /\ generation' = 0
                          /\ bestFitnessHistory' = s.bestFitnessHistory
                          /\ generationsSinceImprovement' = s.generationsSinceImprovement
                          /\ returned' = <<s.stats>>
                  /\ lastCall' = Call("getStats", "none")
                  /\ found' = 0
                  /\ stepTrace' = NoTrace
                  /\ stepBirths' = NoBirths
                  /\ status' = Status("Simulation initialized", "success")
                  /\ buttons' = updateButtonStates("engine", isRunning)
                  /\ UNCHANGED <<isRunning, intervalId, timers>>

\* The body of handleStop(), run with the timers in pending and this.ga as
\* engine_.
handleStopBody(pending, engine_) ==
  /\ isRunning' = FALSE
  /\ timers' = IF intervalId # 0 THEN pending \ {intervalId} ELSE pending
  /\ intervalId' = 0
  /\ buttons' = updateButtonStates(engine_, FALSE)
  /\ status' = Status("Simulation stopped", "info")

handleStop ==
  /\ handler' = "handleStop"
  /\ UNCHANGED form
  /\ handleStopBody(timers, ga)
  /\ UNCHANGED <<engine, calls, ga>>

handleStep ==
  /\ handler' = "handleStep"
  /\ UNCHANGED form
  /\ IF ga = "null"
     THEN /\ status' = Status("Please initialize the simulation first", "error")
          /\ UNCHANGED <<engine, calls, ga, isRunning, intervalId, timers, buttons>>
     ELSE /\ step(MaxGen, MaxHist, FALSE)
          /\ ga' = ga
          /\ IF lastCall'.error # "none"
             THEN UNCHANGED <<isRunning, intervalId, timers, status, buttons>>
             ELSE IF returned'[1].isComplete
             THEN \* 'Target reached!' is shown, then handleStop() runs
                  handleStopBody(timers, ga)
             ELSE /\ status' = Status("Step completed", "success")
                  /\ UNCHANGED <<isRunning, intervalId, timers, buttons>>

handleStart ==
  /\ handler' = "handleStart"
  /\ UNCHANGED form
  /\ IF ga = "null"
     THEN /\ status' = Status("Please initialize the simulation first", "error")
          /\ UNCHANGED <<isRunning, intervalId, timers, buttons>>
     ELSE /\ isRunning' = TRUE
          /\ buttons' = updateButtonStates(ga, TRUE)
          /\ status' = Status("Simulation running...", "running")
          /\ intervalId' = setTimeout(timers)
          /\ timers' = timers \cup {setTimeout(timers)}
  /\ UNCHANGED <<engine, calls, ga>>

\* The timer callback without its test of stats.isComplete: it schedules
\* the next callback after every step.
runStepAlwaysReschedules(t) ==
  /\ t \in timers
  /\ handler' = "runStep"
  /\ UNCHANGED form
  /\ IF ~isRunning \/ ga = "null"
     THEN /\ timers' = timers \ {t}
          /\ UNCHANGED <<engine, calls, ga, isRunning, intervalId, status, buttons>>
     ELSE /\ step(MaxGen, MaxHist, FALSE)
          /\ ga' = ga
          /\ IF lastCall'.error # "none"
             THEN /\ timers' = timers \ {t}
                  /\ UNCHANGED <<isRunning, intervalId, status, buttons>>
             ELSE /\ intervalId' = setTimeout(timers \ {t})
                  /\ timers' = (timers \ {t}) \cup {setTimeout(timers \ {t})}
                  /\ UNCHANGED <<isRunning, status, buttons>>

\* The timer callback of handleStart, for the timer with id t.
runStep(t) ==
  /\ t \in timers
  /\ handler' = "runStep"
  /\ UNCHANGED form
  /\ IF ~isRunning \/ ga = "null"
     THEN /\ timers' = timers \ {t}
          /\ UNCHANGED <<engine, calls, ga, isRunning, intervalId, status, buttons>>
     ELSE /\ step(MaxGen, MaxHist, FALSE)
          /\ ga' = ga
          /\ IF lastCall'.error # "none"
             THEN /\ timers' = timers \ {t}
                  /\ UNCHANGED <<isRunning, intervalId, status, buttons>>
             ELSE IF returned'[1].isComplete
             THEN \* 'Target reached!' is shown, then handleStop() runs
                  handleStopBody(timers \ {t}, ga)
             ELSE /\ intervalId' = setTimeout(timers \ {t})
                  /\ timers' = (timers \ {t}) \cup {setTimeout(timers \ {t})}
                  /\ UNCHANGED <<isRunning, status, buttons>>

handleReset ==
  /\ handler' = "handleReset"
  /\ UNCHANGED form
  /\ isRunning' = FALSE
  /\ timers' = IF intervalId # 0 THEN timers \ {intervalId} ELSE timers
  /\ intervalId' = 0
  /\ IF ga # "null" THEN reset ELSE UNCHANGED <<engine, calls>>
  /\ ga' = "null"
  /\ status' = Status("Simulation reset", "info")
  /\ buttons' = updateButtonStates("null", FALSE)

\* The controller before its first Initialize: the engine's variables hold
\* no object of the controller's.
NoEngine == Constructed(NoForm)

InitUI == NoEngine /\ UIConstructed

\* A click reaches its handler only if the button is not disabled.
NextUI ==
  \/ "init" \in buttons /\ handleInitialize
  \/ "step" \in buttons /\ handleStep
  \/ "start" \in buttons /\ handleStart
  \/ "stop" \in buttons /\ handleStop
  \/ "reset" \in buttons /\ handleReset
  \/ \E t \in timers : runStep(t)

SpecUI == InitUI /\ [][NextUI]_vars

----------------------------------------------------------------------------
(* Properties.                                                             *)

StepDone == lastCall = Call("step", "none")

Count(seq, x) == Cardinality({i \in 1..Len(seq) : seq[i] = x})

\* The number of positions at which dna and target agree.
Matches(dna, target) ==
  Cardinality({i \in (1..Len(dna)) \cap (1..Len(target)) : dna[i] = target[i]})

\* C1: a step() on a population of populationSize individuals succeeds and
\* leaves exactly populationSize individuals, for every strategy, survival
\* rate and population size of the configurations.
C1_StepKeepsPopulationSize ==
  [][(lastCall'.op = "step" /\ Len(population) = config.populationSize)
       => /\ lastCall'.error = "none"
          /\ Len(population') = config.populationSize]_vars

\* C1 witness: two steps done on an odd population, whose last pass pushed
\* one child only.
C1_Witness ==
  /\ StepDone
  /\ generation = MaxGen
  /\ config.populationSize = 3
  /\ config.selectionStrategy = "random"
  /\ Len(population) = 3

\* C2: initialize() leaves populationSize individuals, each of the target's
\* length and with a fitness between 0 and that length.
C2_InitializeShape ==
  lastCall.op = "initialize" =>
    /\ Len(population) = config.populationSize
    /\ \A i \in 1..Len(population) :
         /\ Len(population[i].dna) = Len(config.target)
         /\ population[i].fitness \in 0..Len(config.target)

\* C2 witness: a fresh population of three with the extreme fitnesses.
C2_Witness ==
  /\ lastCall.op = "initialize"
  /\ Len(population) = 3
  /\ Len(config.target) = 2
  /\ \E i, j \in 1..Len(population) :
       population[i].fitness = 0 /\ population[j].fitness = 2

\* C3: in returned statistics isComplete holds exactly if some individual's
\* dna is the target, and then the best individual's fitness is the target's
\* length.  (Runs under the configuration the engine was constructed with.)
C3_CompleteIffTargetPresent ==
  returned # <<>> =>
    /\ returned[1].isComplete <=>
         \E i \in 1..Len(population) : population[i].dna = config.target
    /\ returned[1].isComplete =>
         returned[1].bestIndividual.fitness = Len(config.target)

\* C3 witness: a step reports completion on a target of length 2.
C3_Witness ==
  /\ StepDone
  /\ returned[1].isComplete
  /\ Len(config.target) = 2

\* C4: under elitism a step() carries the top survivorCount individuals of
\* the previous population into the new one unchanged, mutation on or off:
\* the first survivorCount individuals of the new population are individuals
\* of the previous one, dna and fitness, and no individual left behind is
\* fitter than a carried one.
C4_ElitismCarriesSurvivors ==
  [][(lastCall'.op = "step" /\ lastCall'.error = "none"
      /\ config.selectionStrategy = "elitism")
       => LET k == stepTrace'.survivorCount
              carried == SubSeq(population', 1, k)
          IN /\ k <= Len(population')
             /\ \A x \in Range(carried) : Count(carried, x) <= Count(population, x)
             /\ \A x \in Range(population) :
                  Count(carried, x) < Count(population, x)
                    => \A y \in Range(carried) : x.fitness <= y.fitness]_vars

\* C4 witness: an elitist step with mutation on kept two survivors of
\* different fitness and added a third individual.
C4_Witness ==
  /\ StepDone
  /\ config.selectionStrategy = "elitism"
  /\ config.mutationEnabled
  /\ stepTrace.survivorCount = 2
  /\ Len(population) = 3
  /\ population[1].fitness > population[2].fitness
  /\ population[3].fitness < population[2].fitness

\* child has the parents' length and at every position the symbol of one of
\* the two parents at that position.
Recombination(child, dna1, dna2) ==
  /\ Len(child) = Len(dna1)
  /\ Len(child) = Len(dna2)
  /\ \A i \in 1..Len(child) : child[i] \in {dna1[i], dna2[i]}

\* The slots the new population was filled at, one or two per birth.
BirthSlots(births, size) ==
  UNION {{births[k].at, births[k].at + 1} \cap (1..size) : k \in DOMAIN births}

\* C5: with mutationEnabled = FALSE every child a step() creates is a
\* positionwise recombination of its two parents and has their length; every
\* slot beyond the carried survivors holds such a child.
C5_ChildrenRecombineParents ==
  (StepDone /\ ~config.mutationEnabled) =>
    /\ \A k \in DOMAIN stepBirths.births :
         LET b == stepBirths.births[k]
         IN /\ Recombination(population[b.at].dna, b.parent1.dna, b.parent2.dna)
            /\ b.at + 1 <= Len(population) =>
                 Recombination(population[b.at + 1].dna, b.parent1.dna, b.parent2.dna)
    /\ BirthSlots(stepBirths.births, Len(population))
         = (stepTrace.seeded + 1)..Len(population)

\* C5 witness: with mutation off two different parents of length 3 gave a
\* child that equals neither.
C5_Witness ==
  /\ StepDone
  /\ ~config.mutationEnabled
  /\ \E k \in DOMAIN stepBirths.births :
       LET b == stepBirths.births[k]
       IN /\ Len(b.parent1.dna) = 3
          /\ population[b.at].dna # b.parent1.dna
          /\ population[b.at].dna # b.parent2.dna

\* C6 as stated: for every target length the split index of every crossover
\* of a step() lies in 1..length-1.
C6_SplitInsideForEveryLength ==
  StepDone =>
    \A k \in DOMAIN stepTrace.splitPoints :
      stepTrace.splitPoints[k] \in 1..(Len(config.target) - 1)

\* C6 amended: for a target of length 2 or more the split index lies in
\* 1..length-1 and each child starts with one parent's first symbol and
\* ends with the other's last; for a target of length 1 the split index is
\* 1, the length itself, and each child is a copy of one parent.
C6_SplitInsideFromLengthTwo ==
  StepDone =>
    \A k \in DOMAIN stepBirths.births :
      LET b == stepBirths.births[k]
          length == Len(config.target)
      IN /\ Len(b.parent1.dna) = length
         /\ b.splitPoint = stepTrace.splitPoints[k]
         /\ IF length >= 2
            THEN /\ b.splitPoint \in 1..(length - 1)
                 /\ b.child1DNA[1] = b.parent1.dna[1]
                 /\ b.child1DNA[length] = b.parent2.dna[length]
                 /\ b.child2DNA[1] = b.parent2.dna[1]
                 /\ b.child2DNA[length] = b.parent1.dna[length]
            ELSE /\ b.splitPoint = 1
                 /\ b.child1DNA = b.parent1.dna
                 /\ b.child2DNA = b.parent2.dna

\* C6 witness: a crossover on length 3 split at 2, between parents that
\* differ at both ends.
C6_Witness ==
  /\ StepDone
  /\ Len(config.target) = 3
  /\ \E k \in DOMAIN stepBirths.births :
       LET b == stepBirths.births[k]
       IN /\ b.splitPoint = 2
          /\ b.parent1.dna[1] # b.parent2.dna[1]
          /\ b.parent1.dna[3] # b.parent2.dna[3]

\* C7: a step() selects at least 2 and at most populationSize survivors, all
\* of them individuals of the previous population; with populationSize = 2
\* and survivalRate = 1 it selects 2, the whole population.
C7_SurvivorCountBounds ==
  [][(lastCall'.op = "step" /\ lastCall'.error = "none")
       => LET survivors == stepBirths'.survivors
          IN /\ stepTrace'.survivorCount \in 2..config.populationSize
             /\ Len(survivors) = stepTrace'.survivorCount
             /\ \A x \in Range(survivors) : Count(survivors, x) <= Count(population, x)
             /\ (config.populationSize = 2 /\ config.survivalRate = 1)
                  => /\ Len(survivors) = 2
                     /\ \A x \in Range(population) :
                          Count(survivors, x) = Count(population, x)]_vars

\* C7 witness: populationSize = 2 and survivalRate = 1, two survivors.
C7_Witness ==
  /\ StepDone
  /\ config.populationSize = 2
  /\ config.survivalRate = 1
  /\ Len(stepBirths.survivors) = 2
  /\ stepBirths.survivors[1] # stepBirths.survivors[2]

\* C8: the diversity in returned statistics is greater than 0 and at most
\* 100, it is the share of distinct dna strings times 100, and it is 100
\* exactly if the dna strings of the population are pairwise distinct.
C8_DiversityRange ==
  returned # <<>> =>
    LET diversity == returned[1].diversity
        distinct == \A i, j \in 1..Len(population) :
                      i # j => population[i].dna # population[j].dna
    IN /\ diversity.den > 0
       /\ diversity.num > 0
       /\ diversity.num <= 100 * diversity.den
       /\ diversity.num = 100 * diversity.den <=> distinct
       /\ diversity.num * Len(population)
            = 100 * Cardinality({population[i].dna : i \in 1..Len(population)})
                * diversity.den

\* C8 witness: statistics of a population of three equal strings.
C8_Witness ==
  /\ returned # <<>>
  /\ Len(population) = 3
  /\ population[1].dna = population[2].dna
  /\ population[2].dna = population[3].dna
  /\ returned[1].diversity = Quotient(100, 3)

\* C9: in every state reached by initialize, step, getStats, updateConfig
\* and reset, every individual's cached fitness is the number of positions
\* at which its dna equals the configured target, so it lies in 0..length
\* and is the length exactly if the dna is the target.
C9_FitnessMatchesTarget ==
  \A i \in 1..Len(population) :
    /\ population[i].fitness = Matches(population[i].dna, config.target)
    /\ population[i].fitness \in 0..Len(config.target)
    /\ population[i].fitness = Len(config.target)
         <=> population[i].dna = config.target

\* The largest fitness of a non-empty population.
BestFitness(pop) ==
  CHOOSE f \in {pop[i].fitness : i \in 1..Len(pop)} :
    \A i \in 1..Len(pop) : pop[i].fitness <= f

\* C10: every statistics computation (a step() or getStats() that returns)
\* leaves generationsSinceImprovement at 0 if the history was empty, in
\* which case it was 0 before; otherwise it resets it to 0 if the best
\* fitness is greater than the last history entry and adds 1 to it if not.
\* It then appends the best fitness to the history, and the isStagnant it
\* returns holds exactly if the counter is at least 50.
C10_StagnationBookkeeping ==
  [][(lastCall'.op \in {"step", "getStats"} /\ lastCall'.error = "none")
       => LET best == BestFitness(population')
              last == bestFitnessHistory[Len(bestFitnessHistory)]
              since == generationsSinceImprovement'
          IN /\ bestFitnessHistory' = Append(bestFitnessHistory, best)
             /\ IF bestFitnessHistory = <<>>
                THEN since = 0 /\ generationsSinceImprovement = 0
                ELSE IF best > last
                THEN since = 0
                ELSE since = generationsSinceImprovement + 1
             /\ returned'[1].generationsSinceImprovement = since
             /\ returned'[1].isStagnant <=> since >= 50]_vars

\* C10 witness: a step resets a counter that had passed the threshold, and
\* reports no stagnation.
C10_Witness ==
  /\ StepDone
  /\ Len(bestFitnessHistory) > stagnationThreshold + 1
  /\ bestFitnessHistory[Len(bestFitnessHistory) - 1] = 0
  /\ bestFitnessHistory[Len(bestFitnessHistory)] = 1
  /\ generationsSinceImprovement = 0
  /\ ~returned[1].isStagnant

\* C11: a getStats() that follows a returning step() or getStats(), with the
\* population and generation as they were, appends one more entry to the
\* history and returns a generationsSinceImprovement one greater than the
\* call before; on generation 0 the n-th query in a row returns n - 1, so
\* the 51st returns 50 and isStagnant.
C11_RepeatedQueriesAdvance ==
  /\ [][(/\ lastCall'.op = "getStats" /\ lastCall'.error = "none"
          /\ lastCall.op \in {"step", "getStats"} /\ lastCall.error = "none")
           => /\ population' = population
              /\ generation' = generation
              /\ Len(bestFitnessHistory') = Len(bestFitnessHistory) + 1
              /\ SubSeq(bestFitnessHistory', 1, Len(bestFitnessHistory))
                   = bestFitnessHistory
              /\ returned'[1].generationsSinceImprovement
                   = returned[1].generationsSinceImprovement + 1
              /\ returned'[1].isStagnant
                   <=> returned[1].generationsSinceImprovement + 1 >= 50]_vars
  /\ [](lastCall = Call("getStats", "none") /\ generation = 0
          => /\ returned[1].generationsSinceImprovement
                  = Len(bestFitnessHistory) - 1
             /\ Len(bestFitnessHistory) >= 51 => returned[1].isStagnant)

\* C11 witness: the 50th query after the one that followed initialize().
C11_Witness ==
  /\ lastCall = Call("getStats", "none")
  /\ generation = 0
  /\ Len(bestFitnessHistory) = 51
  /\ returned[1].generationsSinceImprovement = 50
  /\ returned[1].isStagnant

\* C12: driven by the controller's handlers and timer callbacks, statistics
\* are computed once per generation: whenever the controller holds an
\* engine with a population, the history has generation + 1 entries, and
\* every handler that steps adds one entry for its one generation.
C12_OneStatsPerGeneration ==
  /\ []((ga = "engine" /\ population # <<>>)
          => Len(bestFitnessHistory) = generation + 1)
  /\ [][(ga' = "engine" /\ generation' = generation + 1)
          => Len(bestFitnessHistory') = Len(bestFitnessHistory) + 1]_vars

\* C12 witness: Initialize, a manual step and a timer's step have left three
\* entries at generation 2.
C12_Witness ==
  /\ ga = "engine"
  /\ handler = "runStep"
  /\ generation = 2
  /\ Len(bestFitnessHistory) = 3
  /\ isRunning

\* C13: initialize() leaves the generation counter at 0; a step() on an
\* initialized engine returns, adds exactly 1 to the counter and reports
\* the new value in its statistics, so the k-th step after initialize()
\* reports k; getStats() leaves the counter as it is and reports it.
C13_GenerationCounter ==
  [][/\ lastCall'.op = "initialize" => generation' = 0
     /\ (lastCall'.op = "step" /\ population # <<>>)
          => /\ lastCall'.error = "none"
             /\ generation' = generation + 1
             /\ returned'[1].generation = generation + 1
     /\ lastCall'.op = "getStats"
          => /\ generation' = generation
             /\ returned' # <<>> => returned'[1].generation = generation]_vars

\* C13 witness: the second step after initialize() reports generation 2,
\* with a query made on the way.
C13_Witness ==
  /\ StepDone
  /\ generation = 2
  /\ returned[1].generation = 2
  /\ Len(bestFitnessHistory) = 3

\* C14: a step() or getStats() on an engine without a population (before
\* the first initialize(), or after reset()) fails with a
\* NotInitializedError and leaves population, generation counter, history
\* and stagnation counter as they were.
C14_UninitializedCallsFail ==
  [][(lastCall'.op \in {"step", "getStats"} /\ population = <<>>)
       => /\ lastCall'.error = "NotInitializedError"
          /\ UNCHANGED <<population, generation, bestFitnessHistory,
                         generationsSinceImprovement>>]_vars

\* C15: an engine whose configuration has a populationSize below 2, an
\* empty target or a survivalRate outside 1..100 does not come to exist:
\* its construction fails with a ConfigurationError, and it is never
\* initialized.
C15_InvalidConfigurationRejected ==
  (\/ config.populationSize < 2
   \/ config.target = <<>>
   \/ config.survivalRate \notin 1..100)
    => /\ lastCall = Call("constructor", "ConfigurationError")
       /\ population = <<>>

\* The configuration is one handleInitialize must refuse.
InvalidForm(c) ==
  \/ c.target = <<>>
  \/ c.populationSize < 2
  \/ \E i \in 1..Len(c.target) :
       c.target[i] \notin Range(setCharacterPool(c.characterSet))

\* C16: Initialize pressed on a form with an empty target, a populationSize
\* below 2 or a target symbol outside the pool of the selected character
\* set shows an error status and calls nothing on an engine: the
\* controller's engine, or its having none, and the engine's configuration,
\* pool, population, generation, history and counter stay as they were.
C16_InvalidFormRefused ==
  [][(handler' = "handleInitialize" /\ InvalidForm(form'))
       => /\ status'.type = "error"
          /\ UNCHANGED <<ga, engine, calls, isRunning, intervalId, timers>>]_vars

\* C16 witness: with an engine two generations on, Initialize was refused
\* for a target with two symbols outside the pool, both listed once.
C16_Witness ==
  /\ handler = "handleInitialize"
  /\ status.type = "error"
  /\ status.chars = <<4, 3>>
  /\ form.target = <<1, 4, 3, 4>>
  /\ ga = "engine"
  /\ generation = 2
  /\ Len(population) = 2

\* C17: if the target has a symbol that is not in the character pool, every
\* symbol of every individual is still one of the pool, and no statistics
\* returned by step() (or getStats()) report isComplete, whatever the
\* strategy, with mutation on or off.
C17_NeverCompleteOutsidePool ==
  (\E i \in 1..Len(config.target) : config.target[i] \notin Range(characterPool))
    => /\ \A k \in 1..Len(population) :
            /\ Range(population[k].dna) \subseteq Range(characterPool)
            /\ population[k].dna # config.target
            /\ population[k].fitness < Len(config.target)
       /\ returned # <<>> => ~returned[1].isComplete

\* C17 witness: two steps with mutation on towards a target whose second
\* symbol is outside the pool; the best individual has the first right.
C17_Witness ==
  /\ StepDone
  /\ generation = 2
  /\ config.target = <<1, 3>>
  /\ config.mutationEnabled
  /\ config.populationSize = 2
  /\ returned[1].bestIndividual.dna = <<1, 2>>
  /\ ~returned[1].isComplete

\* The fields of an engine as its constructor leaves them, for the
\* configuration it has.
Uninitialized ==
  /\ characterPool = setCharacterPool(config.characterSet)
  /\ population = <<>>
  /\ generation = 0
  /\ bestFitnessHistory = <<>>
  /\ generationsSinceImprovement = 0

\* C18: reset() empties the population and puts the generation counter,
\* the history and the stagnation counter back to 0, empty and 0; it leaves
\* the configuration and the character pool as they were.  The engine is
\* then as its constructor left it, and a step() or getStats() on it fails
\* and changes nothing, as on an engine never initialized.
C18_ResetDiscardsRun ==
  [][/\ lastCall'.op = "reset"
          => /\ population' = <<>>
             /\ generation' = 0
             /\ bestFitnessHistory' = <<>>
             /\ generationsSinceImprovement' = 0
             /\ UNCHANGED <<config, characterPool>>
             /\ Uninitialized'
     /\ (lastCall.op = "reset" /\ lastCall'.op \in {"step", "getStats"})
          => /\ lastCall'.error # "none"
             /\ returned' = <<>>
             /\ UNCHANGED engine]_vars

\* C18 witness: reset() has emptied an engine of three individuals that was
\* two generations on.
C18_Witness ==
  /\ lastCall.op = "reset"
  /\ found = 2
  /\ Uninitialized
  /\ config.populationSize = 3

\* C19: initialize() is possible in every state, and whatever the state it
\* is called in it leaves generation 0, an empty history, a stagnation
\* counter of 0 and exactly populationSize individuals, each a string of
\* the target's length over the pool with its fitness, under the
\* configuration and pool it found.
C19_InitializeRestarts ==
  /\ [](ENABLED initialize)
  /\ [][lastCall'.op = "initialize"
          => /\ generation' = 0
             /\ bestFitnessHistory' = <<>>
             /\ generationsSinceImprovement' = 0
             /\ Len(population') = config.populationSize
             /\ \A i \in 1..Len(population') :
                  /\ population'[i].dna
                       \in generateRandomString(characterPool, Len(config.target))
                  /\ population'[i].fitness
                       = Matches(population'[i].dna, config.target)
             /\ UNCHANGED <<config, characterPool>>]_vars

\* C19 witness: initialize() called on an engine two generations on has
\* left a population of three, none of them near the target.
C19_Witness ==
  /\ lastCall.op = "initialize"
  /\ found = 2
  /\ generation = 0
  /\ bestFitnessHistory = <<>>
  /\ Len(population) = 3
  /\ \A i \in 1..3 : population[i].fitness = 0

\* C20: in every step() the parents of every crossover are individuals of
\* the previous generation, chosen by the strategy: under elitism both are
\* survivors, under semi-elitism the first is a survivor and the second any
\* individual of the previous population, under random both are any
\* individuals of it.  The survivors are themselves individuals of the
\* previous population, and the children fill the new population's slots
\* beyond the carried survivors.
C20_ParentsByStrategy ==
  [][(lastCall'.op = "step" /\ lastCall'.error = "none")
       => LET survivors == Range(stepBirths'.survivors)
              previous == Range(population)
              births == stepBirths'.births
          IN /\ survivors \subseteq previous
             /\ \A k \in DOMAIN births :
                  CASE config.selectionStrategy = "elitism" ->
                         /\ births[k].parent1 \in survivors
                         /\ births[k].parent2 \in survivors
                    [] config.selectionStrategy = "semi-elitism" ->
                         /\ births[k].parent1 \in survivors
                         /\ births[k].parent2 \in previous
                    [] config.selectionStrategy = "random" ->
                         /\ births[k].parent1 \in previous
                         /\ births[k].parent2 \in previous
             /\ BirthSlots(births, Len(population'))
                  = (stepTrace'.seeded + 1)..Len(population')]_vars

\* C20 witness: a semi-elitist step with two survivors of three took as
\* second parent the individual that did not survive.
C20_Witness ==
  /\ StepDone
  /\ config.selectionStrategy = "semi-elitism"
  /\ Len(stepBirths.survivors) = 2
  /\ Len(population) = 3
  /\ \E k \in DOMAIN stepBirths.births :
       /\ stepBirths.births[k].parent1 \in Range(stepBirths.survivors)
       /\ stepBirths.births[k].parent2 \notin Range(stepBirths.survivors)

\* C21: for a target of length 1 a step() fails only on an engine without
\* a population.  A step that returns has split every pair at 1, each
\* child before mutation is its parent of the same rank, the population has
\* populationSize individuals and every dna has length 1.
C21_LengthOneStep ==
  Len(config.target) = 1 =>
    /\ lastCall = Call("step", "TypeError") => population = <<>>
    /\ StepDone =>
         /\ Len(population) = config.populationSize
         /\ \A i \in 1..Len(population) : Len(population[i].dna) = 1
         /\ stepTrace.seeded + 2 * Len(stepBirths.births)
              \in {config.populationSize, config.populationSize + 1}
         /\ \A k \in DOMAIN stepBirths.births :
              LET b == stepBirths.births[k]
              IN /\ b.splitPoint = 1
                 /\ b.child1DNA = b.parent1.dna
                 /\ b.child2DNA = b.parent2.dna
                 /\ ~config.mutationEnabled
                      => /\ population[b.at].dna = b.parent1.dna
                         /\ b.at + 1 <= Len(population)
                              => population[b.at + 1].dna = b.parent2.dna

\* C21 witness: a step on a target of length 1 crossed two different
\* parents and filled a population of three.
C21_Witness ==
  /\ StepDone
  /\ Len(config.target) = 1
  /\ Len(population) = 3
  /\ \E k \in DOMAIN stepBirths.births :
       stepBirths.births[k].parent1.dna # stepBirths.births[k].parent2.dna

\* C23: once a step() has returned isComplete, every later step() and
\* getStats() of the same run reports isComplete too: from a state whose
\* last statistics, of generation 1 or later, were complete, the next
\* step() or getStats() returns complete statistics.
C23_CompletionIsTerminal ==
  [][(/\ generation >= 1
      /\ lastCall \in {Call("step", "none"), Call("getStats", "none")}
      /\ returned # <<>>
      /\ returned[1].isComplete
      /\ lastCall'.op \in {"step", "getStats"})
     => (/\ lastCall'.error = "none"
         /\ returned' # <<>>
         /\ returned'[1].isComplete)]_vars

\* A step() of the engine has run in this transition.
Stepped == lastCall' = Call("step", "none") /\ generation' = generation + 1

\* C24: when a step of the automatic run returns isComplete, the callback
\* leaves isRunning false, no timer pending and no timer id, with Stop
\* disabled and Step and Start enabled; and while the controller is not
\* running, step() is invoked only by the Step button, and a run begins
\* only with the Start button.
C24_RunStopsOnCompletion ==
  [][/\ (Stepped /\ handler' = "runStep" /\ returned'[1].isComplete)
        => /\ ~isRunning'
           /\ timers' = {}
           /\ intervalId' = 0
           /\ buttons' = {"init", "reset", "step", "start"}
     /\ (Stepped /\ ~isRunning) => handler' = "handleStep"
     /\ (~isRunning /\ isRunning') => handler' = "handleStart"]_vars

\* C24 witness: the timer callback has just made the step that reached
\* the target and the run has stopped.
C24_Witness ==
  /\ handler = "runStep"
  /\ lastCall = Call("step", "none")
  /\ returned[1].isComplete
  /\ ~isRunning
  /\ timers = {}

\* C25: in every interleaving of the enabled buttons' handlers with the
\* timer callbacks, at most one timer is pending, and only while isRunning
\* (it is the one intervalId names); during a run only Stop is enabled;
\* after Stop or Reset the controller is not running and no timer is
\* pending; step() runs while running only in the timer callback, and
\* otherwise only in the Step handler.
C25_OneTimerOnlyWhileRunning ==
  /\ [](/\ Cardinality(timers) <= 1
        /\ (timers # {}) => (isRunning /\ timers = {intervalId})
        /\ isRunning => (buttons = {"stop"})
        /\ (handler \in {"handleStop", "handleReset"})
             => (~isRunning /\ timers = {} /\ intervalId = 0))
  /\ [][/\ (Stepped /\ isRunning)
             => (handler' = "runStep" /\ timers = {intervalId})
        /\ Stepped => (handler' \in {"runStep", "handleStep"})]_vars

\* C25 witness: during a run the timer callback has stepped without
\* reaching the target and has scheduled the next callback.
C25_Witness ==
  /\ handler = "runStep"
  /\ lastCall = Call("step", "none")
  /\ ~returned[1].isComplete
  /\ isRunning
  /\ timers = {intervalId}

\* C25 witness of the other half: Stop pressed during a run, its timer
\* cancelled.
C25_StoppedRun ==
  /\ handler = "handleStop"
  /\ generation >= 1
  /\ timers = {}

\* C30: when a step made by the Step handler or by the timer callback
\* returns isComplete, the status the handler leaves is 'Target reached!'
\* with type 'success'.
C30_TargetReachedShown ==
  [][(/\ Stepped
      /\ handler' \in {"handleStep", "runStep"}
      /\ returned'[1].isComplete)
     => status' = Status("Target reached!", "success")]_vars

\* The best fitness recorded by the last statistics computation, and the
\* ones recorded before it.
LastBest == bestFitnessHistory[Len(bestFitnessHistory)]
EarlierBests ==
  {bestFitnessHistory[i] : i \in 1..(Len(bestFitnessHistory) - 1)}

\* C26 as stated: whenever a step leaves generationsSinceImprovement at 0,
\* the best fitness it recorded is strictly greater than every best
\* fitness recorded earlier in the run, for every selection strategy.
C26_ResetExceedsEveryEarlierBest ==
  (StepDone /\ generationsSinceImprovement = 0)
    => \A f \in EarlierBests : LastBest > f

\* C26 amended: whenever a step leaves generationsSinceImprovement at 0 and
\* a best fitness was recorded before, the best fitness it recorded is
\* strictly greater than the one recorded last before it; under elitism it
\* is then strictly greater than every best fitness recorded earlier.
C26_ResetExceedsLastRecordedBest ==
  (StepDone /\ generationsSinceImprovement = 0 /\ Len(bestFitnessHistory) >= 2)
    => /\ LastBest > bestFitnessHistory[Len(bestFitnessHistory) - 1]
       /\ config.selectionStrategy = "elitism"
            => \A f \in EarlierBests : LastBest > f

\* C26 witness: a step has reset the counter on a best fitness that only
\* regains what an earlier generation had before a loss.
C26_Witness ==
  /\ StepDone
  /\ generationsSinceImprovement = 0
  /\ Len(bestFitnessHistory) = 3
  /\ bestFitnessHistory[3] > bestFitnessHistory[2]
  /\ bestFitnessHistory[1] >= bestFitnessHistory[3]

\* C27: under elitism, with mutation on or off, the best fitness reported
\* by successive step() calls never decreases: the best fitness a step
\* returns is the last entry of the history, and no entry of the history
\* is smaller than the one before it.
C27_BestNeverDecreasesUnderElitism ==
  config.selectionStrategy = "elitism" =>
    /\ StepDone => returned[1].bestIndividual.fitness = LastBest
    /\ \A i \in 1..(Len(bestFitnessHistory) - 1) :
         bestFitnessHistory[i] <= bestFitnessHistory[i + 1]

\* C27 witness: under elitism with mutation on, the second step of a run
\* on a population of three has reported a higher best fitness than the
\* first.
C27_Witness ==
  /\ StepDone
  /\ config.selectionStrategy = "elitism"
  /\ config.mutationEnabled
  /\ config.populationSize = 3
  /\ generation = 2
  /\ Len(bestFitnessHistory) = 2
  /\ bestFitnessHistory[2] > bestFitnessHistory[1]

\* The symbols the individuals of pop hold at position i.
Alleles(pop, i) == {pop[k].dna[i] : k \in 1..Len(pop)}

\* The positions of the target whose symbol no individual of pop holds
\* there.
MissingPositions(pop) ==
  {i \in 1..Len(config.target) : config.target[i] \notin Alleles(pop, i)}

\* C28: with mutation disabled, every symbol at position i of an
\* individual of the generation a step produces was at position i of an
\* individual of the generation before, hence, step after step, of the
\* initial population; and from a population in which no individual has
\* the target's symbol at some position, neither step() nor getStats()
\* reports isComplete, and the next population lacks it as well.
C28_SymbolsInheritedInPlace ==
  [][(~config.mutationEnabled /\ population # <<>>
        /\ lastCall' \in {Call("step", "none"), Call("getStats", "none")})
     => /\ \A k \in 1..Len(population') :
             Len(population'[k].dna) = Len(config.target)
        /\ \A i \in 1..Len(config.target) :
             Alleles(population', i) \subseteq Alleles(population, i)
        /\ MissingPositions(population) # {}
             => (~returned'[1].isComplete /\ MissingPositions(population') # {})]_vars

\* C28 witness: with mutation off, the second step of a run has recombined
\* a population of three that lacks the target's symbol at one position
\* while holding it at the other, and is not complete.
C28_Witness ==
  /\ StepDone
  /\ ~config.mutationEnabled
  /\ generation = 2
  /\ Len(population) = 3
  /\ Cardinality(MissingPositions(population)) = 1
  /\ Len(config.target) = 2
  /\ stepTrace.splitPoints # <<>>
  /\ ~returned[1].isComplete

\* Under elitism every individual of the population is a survivor.
AllSurvive ==
  /\ config.selectionStrategy = "elitism"
  /\ population # <<>>
  /\ survivorCount(config, population) = config.populationSize

\* C29: under elitism with as many survivors as the population has
\* places, a step() crosses and mutates nothing: the new population is the
\* previous one, sorted; the best fitness, average fitness and diversity
\* it returns are those of the previous population; generation advances by
\* one, and generationsSinceImprovement advances by one once a best
\* fitness has been recorded (the first record of a run leaves it at 0).
C29_StepWithAllSurvivorsIsIdle ==
  [][(AllSurvive /\ Stepped)
     => /\ population' = SortByFitness(population)
        /\ stepTrace'.splitPoints = <<>>
        /\ stepTrace'.seeded = config.populationSize
        /\ returned'[1].bestIndividual = SortByFitness(population)[1]
        /\ returned'[1].averageFitness
             = Quotient(TotalFitness(population), Len(population))
        /\ returned'[1].diversity = calculateDiversity(population)
        /\ returned'[1].isComplete
             = (BestFitness(population) = Len(config.target))
        /\ returned'[1].generation = generation + 1
        /\ generationsSinceImprovement'
             = IF bestFitnessHistory = <<>> THEN 0
               ELSE generationsSinceImprovement + 1
        /\ returned'[1].generationsSinceImprovement
             = generationsSinceImprovement']_vars

\* C29 witness: elitism with survival rate 100 and mutation on, a
\* population of three different individuals: after a getStats() and two
\* steps nothing was crossed and the stagnation counter is at 2.
C29_Witness ==
  /\ StepDone
  /\ AllSurvive
  /\ config.mutationEnabled
  /\ config.populationSize = 3
  /\ config.survivalRate = 100
  /\ generation = 2
  /\ generationsSinceImprovement = 2
  /\ stepTrace.splitPoints = <<>>
  /\ Cardinality({population[i].dna : i \in 1..Len(population)}) = 3

====
